---- MODULE Spec2Model ----
(***************************************************************************)
(* Echo Chamber: the EchoChamber class of echo-chamber/index.js           *)
(* (validateSequence, predictNext, getMemories, clearMemories) as a state  *)
(* machine over one instance, with JavaScript's number semantics for the   *)
(* values the validation lets through (finite numbers, +/-Infinity, NaN).  *)
(*                                                                         *)
(* Finite numbers are modelled by integers, on which JavaScript's          *)
(* subtraction, addition and === are exact; rounding of non-representable  *)
(* fractions is outside the model.                                         *)
(***************************************************************************)
EXTENDS Integers, Sequences, FiniteSets, TLC

VARIABLES
    echoMemories,     \* this.echoMemories: the stored entries, oldest first
    predictionCount,  \* this.predictionCount
    sequence,         \* the argument of the last validateSequence/predictNext call
    call,             \* [op, result]: the last method called and what it returned
    successes,        \* history variable: successful predictNext calls since the
                      \* last clearMemories (or since construction)
    lifetime,         \* history variable: successful predictNext calls since construction
    firstValidation   \* history variable: argument and result of the instance's
                      \* first validateSequence call and the counter at that call,
                      \* None before it

\* the web server (server.js) around the shared instance
VARIABLES
    inflight,         \* per client: the request sent and not yet handled, or None
    response,         \* the last response sent: [client, request, status, body]
    predicted         \* history variable: POST /api/predict requests answered with
                      \* success = true since the last DELETE /api/memories

httpVars == <<inflight, response, predicted>>

\* the code around the instance: a caller's references, threads, the web page
VARIABLES
    caller,           \* the references a caller of the class holds: held, the array
                      \* getMemories returned to it; input, its own array passed to
                      \* predictNext; shared, the stored entries whose sequence is
                      \* that same array object
    threads,          \* parallel callers of predictNext: where each one is, the
                      \* counter value each has read, the lock and whether it is used
    page              \* the web page (app.js): disabled, the predict button's state;
                      \* shown, the result or error on display; panel, the count the
                      \* memory panel was last drawn from; event, the last step of a
                      \* predictSequence call; pc and reply, per call of
                      \* predictSequence (a client of the server): where it waits
                      \* and the outcome of its fetch

extVars == <<caller, threads, page>>

vars ==
    <<echoMemories, predictionCount, sequence, call, successes, lifetime, firstValidation,
      inflight, response, predicted, caller, threads, page>>

---------------------------------------------------------------------------
(* Bounds of the model *)

\* longest generated input array
MaxLen == 4
\* generated finite numbers are -MaxNum..MaxNum
MaxNum == 1
\* successful predictions in the lifetime of one instance
MaxPredictions == 3
\* runs of the console's automated tests in one session
MaxRuns == 2

---------------------------------------------------------------------------
(* JavaScript values.  A value is [k, v]: k is the kind, v the integer of a *)
(* finite number, the sign of an infinity, and 0 otherwise.                 *)

Num(n) == [k |-> "finite", v |-> n]
NaN == [k |-> "nan", v |-> 0]
Infinity == [k |-> "infinity", v |-> 1]
NegInfinity == [k |-> "infinity", v |-> -1]
Null == [k |-> "null", v |-> 0]
Undefined == [k |-> "undefined", v |-> 0]
Str == [k |-> "string", v |-> 0]
\* an empty slot of a sparse array: reads as undefined, skipped by every()
Hole == [k |-> "hole", v |-> 0]
\* a Symbol: a value that ToNumber refuses with a TypeError
Sym == [k |-> "symbol", v |-> 0]

\* the outcome of a call that threw a TypeError instead of returning
TypeError == [threw |-> "TypeError"]

\* arrays and the non-array arguments a caller may pass
Arr(items) == [k |-> "array", items |-> items]
NonArray(kind) == [k |-> kind, items |-> <<>>]

\* no value yet (before the first call)
None == [k |-> "none"]

\* typeof x === 'number'
typeofNumber(x) == x.k \in {"finite", "nan", "infinity"}

\* ToNumber(x) throws (the value ToNumber gives below is then never used)
ToNumberThrows(x) == x.k = "symbol"

\* ToNumber, as the arithmetic operators apply it to their operands
ToNumber(x) ==
    CASE typeofNumber(x) -> x
      [] x.k = "null" -> Num(0)
      [] OTHER -> NaN

\* isNaN(x)
isNaN(x) == ToNumber(x).k = "nan"

\* a - b
JsSub(a, b) ==
    LET x == ToNumber(a)
        y == ToNumber(b)
    IN  IF x.k = "nan" \/ y.k = "nan" THEN NaN
        ELSE IF x.k = "infinity"
             THEN IF y.k = "infinity" /\ y.v = x.v THEN NaN ELSE x
        ELSE IF y.k = "infinity" THEN [k |-> "infinity", v |-> 0 - y.v]
        ELSE Num(x.v - y.v)

\* a + b, on the operands predictNext gives it (numbers, null)
JsAdd(a, b) ==
    LET x == ToNumber(a)
        y == ToNumber(b)
    IN  IF x.k = "nan" \/ y.k = "nan" THEN NaN
        ELSE IF x.k = "infinity"
             THEN IF y.k = "infinity" /\ y.v # x.v THEN NaN ELSE x
        ELSE IF y.k = "infinity" THEN y
        ELSE Num(x.v + y.v)

\* a === b on numbers: NaN equals nothing, itself included
JsStrictEq(a, b) == a.k # "nan" /\ b.k # "nan" /\ a = b

\* Array.isArray(x)
isArray(x) == x.k = "array"

---------------------------------------------------------------------------
(* validateSequence *)

Message(text, arg) == [text |-> text, arg |-> arg]

MsgNotArray == Message("Error: Input must be an array", Null)
MsgTooShort == Message("Error: Sequence must contain at least 2 numbers", Null)
MsgNotNumbers == Message("Error: All elements must be valid numbers", Null)
MsgNotArithmetic ==
    Message("Error: This is not an arithmetic progression. The differences between consecutive numbers are not constant.", Null)
MsgValid == Message("Valid arithmetic progression detected!", Null)
MsgNext(nextNumber) == Message("The next number in the sequence is: ", nextNumber)

\* mutant: the typeof test left out
isValidNumberNoTypeof(num) == ~isNaN(num)

\* num => typeof num === 'number' && !isNaN(num)
isValidNumber(num) == typeofNumber(num) /\ ~isNaN(num)

\* mutant: without the typeof test isNaN is applied to every element
isValidNumberThrowsNoTypeof(num) == ToNumberThrows(num)

\* the every callback throws: isNaN(num) is evaluated only after typeof num === 'number'
isValidNumberThrows(num) == typeofNumber(num) /\ ToNumberThrows(num)

\* sequence.every(...) throws: every() stops at the first element its callback refuses
everyThrows(items) ==
    \E i \in 1..Len(items) :
        /\ items[i].k # "hole"
        /\ isValidNumberThrows(items[i])
        /\ \A j \in 1..(i - 1) : items[j].k = "hole" \/ isValidNumber(items[j])

\* sequence.every(...): every() does not visit the empty slots of an array
allValidNumbers(items) ==
    \A i \in 1..Len(items) : items[i].k = "hole" \/ isValidNumber(items[i])

\* for (let i = 1; i < sequence.length; i++) differences.push(sequence[i] - sequence[i - 1])
\* (i is the loop's 0-based index; items is 1-based)
RECURSIVE pushDifferences(_, _, _)
pushDifferences(items, i, differences) ==
    IF i < Len(items)
    THEN pushDifferences(items, i + 1, Append(differences, JsSub(items[i + 1], items[i])))
    ELSE differences

\* mutant: some() for every()
isArithmeticSome(differences) ==
    LET firstDifference == differences[1]
    IN  \E j \in 1..Len(differences) : JsStrictEq(differences[j], firstDifference)

\* differences.every(d => d === firstDifference)
isArithmetic(differences) ==
    LET firstDifference == differences[1]
    IN  \A j \in 1..Len(differences) : JsStrictEq(differences[j], firstDifference)

\* the differences loop throws: an operand of a subtraction that ToNumber refuses
differencesThrow(items) ==
    \E i \in 1..(Len(items) - 1) :
        ToNumberThrows(items[i + 1]) \/ ToNumberThrows(items[i])

\* validateSequence(sequence) throws instead of returning
validateThrows(seq) ==
    /\ isArray(seq)
    /\ Len(seq.items) >= 2
    /\ \/ everyThrows(seq.items)
       \/ allValidNumbers(seq.items) /\ differencesThrow(seq.items)

\* mutant: the differences are compared with the last stored commonDifference
validateSequenceStale(seq) ==
    IF ~isArray(seq)
    THEN [isValid |-> FALSE, difference |-> Null, message |-> MsgNotArray]
    ELSE IF Len(seq.items) < 2
    THEN [isValid |-> FALSE, difference |-> Null, message |-> MsgTooShort]
    ELSE IF ~allValidNumbers(seq.items)
    THEN [isValid |-> FALSE, difference |-> Null, message |-> MsgNotNumbers]
    ELSE LET differences == pushDifferences(seq.items, 1, <<>>)
             reference ==
                 IF echoMemories = <<>>
                 THEN differences[1]
                 ELSE echoMemories[Len(echoMemories)].commonDifference
         IN  IF \E j \in 1..Len(differences) : ~JsStrictEq(differences[j], reference)
             THEN [isValid |-> FALSE, difference |-> Null, message |-> MsgNotArithmetic]
             ELSE [isValid |-> TRUE, difference |-> reference, message |-> MsgValid]

\* mutant: the elements are checked before the length
validateSequenceElementsFirst(seq) ==
    IF ~isArray(seq)
    THEN [isValid |-> FALSE, difference |-> Null, message |-> MsgNotArray]
    ELSE IF ~allValidNumbers(seq.items)
    THEN [isValid |-> FALSE, difference |-> Null, message |-> MsgNotNumbers]
    ELSE IF Len(seq.items) < 2
    THEN [isValid |-> FALSE, difference |-> Null, message |-> MsgTooShort]
    ELSE LET differences == pushDifferences(seq.items, 1, <<>>)
         IN  IF ~isArithmetic(differences)
             THEN [isValid |-> FALSE, difference |-> Null, message |-> MsgNotArithmetic]
             ELSE [isValid |-> TRUE, difference |-> differences[1], message |-> MsgValid]

\* validateSequence(sequence): the object it returns
validateSequence(seq) ==
    IF ~isArray(seq)
    THEN [isValid |-> FALSE, difference |-> Null, message |-> MsgNotArray]
    ELSE IF Len(seq.items) < 2
    THEN [isValid |-> FALSE, difference |-> Null, message |-> MsgTooShort]
    ELSE IF ~allValidNumbers(seq.items)
    THEN [isValid |-> FALSE, difference |-> Null, message |-> MsgNotNumbers]
    ELSE LET differences == pushDifferences(seq.items, 1, <<>>)
         IN  IF ~isArithmetic(differences)
             THEN [isValid |-> FALSE, difference |-> Null, message |-> MsgNotArithmetic]
             ELSE [isValid |-> TRUE, difference |-> differences[1], message |-> MsgValid]

---------------------------------------------------------------------------
(* predictNext *)

\* mutant: the first element for the last
nextNumberFromFirst(seq, validation) ==
    JsAdd(seq.items[1], validation.difference)

\* sequence[sequence.length - 1] + validation.difference
nextNumberOf(seq, validation) ==
    JsAdd(seq.items[Len(seq.items)], validation.difference)

\* mutant: the index taken before the increment, without the + 1
nextIndexZeroBased(count) == count

\* predictionIndex: this.predictionCount + 1
nextIndex(count) == count + 1

\* the object pushed on this.echoMemories; [...sequence] copies the elements
memoryEntry(seq, validation, now, count) ==
    [sequence |-> seq.items,
     nextNumber |-> nextNumberOf(seq, validation),
     commonDifference |-> validation.difference,
     timestamp |-> now,
     predictionIndex |-> nextIndex(count)]

\* mutant: unshift() for push()
unshift(memories, entry) == <<entry>> \o memories

\* this.echoMemories.push(entry)
push(memories, entry) == Append(memories, entry)

\* mutant: the counter is incremented by two
incrementByTwo(count) == count + 2

\* this.predictionCount++
increment(count) == count + 1

\* mutant: one message of its own for every failed validation
predictResultOwnMessage(seq, validation) ==
    IF ~validation.isValid
    THEN [success |-> FALSE,
          nextNumber |-> Null,
          message |-> Message("Error: Invalid sequence", Null)]
    ELSE [success |-> TRUE,
          nextNumber |-> nextNumberOf(seq, validation),
          commonDifference |-> validation.difference,
          message |-> MsgNext(nextNumberOf(seq, validation))]

\* the object predictNext returns
predictResult(seq, validation) ==
    IF ~validation.isValid
    THEN [success |-> FALSE, nextNumber |-> Null, message |-> validation.message]
    ELSE [success |-> TRUE,
          nextNumber |-> nextNumberOf(seq, validation),
          commonDifference |-> validation.difference,
          message |-> MsgNext(nextNumberOf(seq, validation))]

---------------------------------------------------------------------------
(* clearMemories *)

\* mutant: pop() for the reset
clearedMemoriesPop(memories) ==
    IF memories = <<>> THEN <<>> ELSE SubSeq(memories, 1, Len(memories) - 1)

\* this.echoMemories = []
clearedMemories(memories) == <<>>

\* mutant: the counter is not reset
clearedCountKept(count) == count

\* this.predictionCount = 0
clearedCount(count) == 0

---------------------------------------------------------------------------
(* Inputs *)

\* new Date().toLocaleTimeString(): two readings of the wall clock
Times == {"10:30:45 AM", "10:30:46 AM"}

Nums(S) == [i \in 1..Len(S) |-> Num(S[i])]

\* the arguments of the test suite and of the README's scenarios
Requests ==
    { Arr(Nums(<<3, 6, 9, 12>>)),
      Arr(Nums(<<10, 7, 4, 1>>)),
      Arr(Nums(<<7, 7, 7, 7>>)),
      Arr(Nums(<<5, 10>>)),
      Arr(Nums(<<1, 2, 4, 8>>)),
      NonArray("string"),
      Arr(<<>>),
      Arr(Nums(<<42>>)),
      Arr(<<Num(1), Str, Num(3)>>),
      Arr(<<Num(1), NaN, Num(3)>>) }

\* further arguments of the test suite, for the single calls of SpecFn
TestSequences ==
    { Arr(Nums(<<-10, -5, 0, 5>>)),
      Arr(Nums(<<2, 4, 6, 8>>)),
      Arr(Nums(<<1, 3, 4, 10>>)),
      Arr(Nums(<<1000000, 2000000, 3000000>>)) }

\* the arguments of the repeated validations of SpecRepeat
Probes ==
    { Arr(Nums(<<5, 10>>)),
      Arr(Nums(<<10, 7, 4, 1>>)),
      Arr(Nums(<<1, 2, 4, 8>>)),
      NonArray("string") }

\* the elements of generated arrays
Elements ==
    {Num(n) : n \in (0 - MaxNum)..MaxNum}
        \cup {NaN, Infinity, NegInfinity, Str, Null, Hole, Sym}

ArraysUpTo(n) == UNION {[1..m -> Elements] : m \in 0..n}

\* every array of at most MaxLen elements, the non-array values, and Requests
AllInputs ==
    {Arr(items) : items \in ArraysUpTo(MaxLen)}
        \cup {NonArray(kind) : kind \in {"string", "null", "undefined", "object"}}
        \cup Requests
        \cup TestSequences

---------------------------------------------------------------------------
(* The instance *)

\* the clients of the web server
Clients == {"c1", "c2"}

\* the server after app.listen: nothing received, nothing answered
ServerStarted ==
    /\ inflight = [c \in Clients |-> None]
    /\ response = None
    /\ predicted = 0

\* the parallel callers
Threads == {"t1", "t2"}

\* no caller holds a reference yet
NoReferences == caller = [held |-> None, input |-> None, shared |-> {}]

\* no thread is inside predictNext
NoThreads ==
    threads = [useLock |-> FALSE, lock |-> "free",
               pc |-> [t \in Threads |-> "idle"],
               read |-> [t \in Threads |-> 0],
               overlapped |-> FALSE]

\* the page after DOMContentLoaded: button enabled, nothing shown, no call running
PageLoaded ==
    page = [disabled |-> FALSE, shown |-> None, panel |-> None, event |-> None,
            pc |-> [c \in Clients |-> "idle"],
            reply |-> [c \in Clients |-> None]]

\* constructor()
Init ==
    /\ echoMemories = <<>>
    /\ predictionCount = 0
    /\ sequence = Undefined
    /\ call = [op |-> "constructor", result |-> Undefined]
    /\ successes = 0
    /\ lifetime = 0
    /\ firstValidation = None
    /\ ServerStarted
    /\ NoReferences
    /\ NoThreads
    /\ PageLoaded

\* mutant: a valid sequence is recorded by validateSequence too
ValidateSequenceRecording(seq) ==
    LET validation == validateSequence(seq)
    IN  /\ sequence' = seq
        /\ call' = [op |-> "validateSequence", result |-> validation]
        /\ echoMemories' =
               IF validation.isValid
               THEN push(echoMemories,
                         memoryEntry(seq, validation, "10:30:45 AM", predictionCount))
               ELSE echoMemories
        /\ UNCHANGED <<predictionCount, successes, lifetime>>

\* validateSequence(seq): it assigns no field of the instance
ValidateSequence(seq) ==
    /\ sequence' = seq
    /\ call' = [op |-> "validateSequence",
                result |-> IF validateThrows(seq) THEN TypeError ELSE validateSequence(seq)]
    /\ UNCHANGED <<echoMemories, predictionCount, successes, lifetime>>

\* mutant: the counter is incremented before the validation is looked at
PredictNextCounting(seq, now) ==
    LET validation == validateSequence(seq)
    IN  /\ validation.isValid => lifetime < MaxPredictions
        /\ predictionCount < MaxPredictions
        /\ sequence' = seq
        /\ call' = [op |-> "predictNext", result |-> predictResult(seq, validation)]
        /\ predictionCount' = increment(predictionCount)
        /\ IF ~validation.isValid
           THEN UNCHANGED <<echoMemories, successes, lifetime>>
           ELSE /\ echoMemories' =
                       push(echoMemories, memoryEntry(seq, validation, now, predictionCount))
                /\ successes' = successes + 1
                /\ lifetime' = lifetime + 1
        /\ UNCHANGED firstValidation

\* predictNext(seq), the wall clock reading now
PredictNext(seq, now) ==
    IF validateThrows(seq)
    THEN /\ sequence' = seq
         /\ call' = [op |-> "predictNext", result |-> TypeError]
         /\ UNCHANGED <<echoMemories, predictionCount, successes, lifetime, firstValidation>>
    ELSE
    LET validation == validateSequence(seq)
    IN  /\ validation.isValid => lifetime < MaxPredictions
        /\ sequence' = seq
        /\ call' = [op |-> "predictNext", result |-> predictResult(seq, validation)]
        /\ IF ~validation.isValid
           THEN UNCHANGED <<echoMemories, predictionCount, successes, lifetime>>
           ELSE /\ echoMemories' =
                       push(echoMemories, memoryEntry(seq, validation, now, predictionCount))
                /\ predictionCount' = increment(predictionCount)
                /\ successes' = successes + 1
                /\ lifetime' = lifetime + 1
        /\ UNCHANGED firstValidation

Reverse(s) == [i \in 1..Len(s) |-> s[Len(s) + 1 - i]]

\* mutant: newest first, by reverse(), which reverses the array in place
GetMemoriesReversing ==
    /\ echoMemories' = Reverse(echoMemories)
    /\ call' = [op |-> "getMemories", result |-> Reverse(echoMemories)]
    /\ UNCHANGED <<predictionCount, sequence, successes, lifetime, firstValidation>>

\* getMemories(): returns this.echoMemories
GetMemories ==
    /\ call' = [op |-> "getMemories", result |-> echoMemories]
    /\ UNCHANGED <<echoMemories, predictionCount, sequence, successes, lifetime, firstValidation>>

\* clearMemories()
ClearMemories ==
    /\ echoMemories' = clearedMemories(echoMemories)
    /\ predictionCount' = clearedCount(predictionCount)
    /\ call' = [op |-> "clearMemories", result |-> Undefined]
    /\ successes' = 0
    /\ UNCHANGED <<sequence, lifetime, firstValidation>>

Validate ==
    \E seq \in Requests :
        ValidateSequence(seq) /\ UNCHANGED firstValidation /\ UNCHANGED <<httpVars, extVars>>
Predict ==
    \E seq \in Requests : \E now \in Times : PredictNext(seq, now) /\ UNCHANGED <<httpVars, extVars>>
Get == GetMemories /\ UNCHANGED <<httpVars, extVars>>
Clear == ClearMemories /\ UNCHANGED <<httpVars, extVars>>

Next ==
    \/ Validate
    \/ Predict
    \/ Get
    \/ Clear

\* one instance under any sequence of calls
Spec == Init /\ [][Next]_vars

---------------------------------------------------------------------------
(* One call on a fresh instance, the argument drawn from AllInputs *)

InitFn ==
    /\ echoMemories = <<>>
    /\ predictionCount = 0
    /\ sequence \in AllInputs
    /\ call = [op |-> "constructor", result |-> Undefined]
    /\ successes = 0
    /\ lifetime = 0
    /\ firstValidation = None
    /\ ServerStarted
    /\ NoReferences
    /\ NoThreads
    /\ PageLoaded

FnValidate ==
    /\ call.op = "constructor"
    /\ ValidateSequence(sequence)
    /\ UNCHANGED firstValidation
    /\ UNCHANGED <<httpVars, extVars>>
FnPredict ==
    /\ call.op = "constructor"
    /\ \E now \in Times : PredictNext(sequence, now)
    /\ UNCHANGED <<httpVars, extVars>>

NextFn ==
    \/ FnValidate
    \/ FnPredict

SpecFn == InitFn /\ [][NextFn]_vars

---------------------------------------------------------------------------
(* One instance whose first validateSequence call is remembered *)

RepeatValidate ==
    \E seq \in Probes :
        /\ ValidateSequence(seq)
        /\ firstValidation' =
               IF firstValidation = None
               THEN [sequence |-> seq,
                     result |-> call'.result,
                     count |-> predictionCount]
               ELSE firstValidation
        /\ UNCHANGED <<httpVars, extVars>>
RepeatPredict ==
    \E seq \in Probes : \E now \in Times : PredictNext(seq, now) /\ UNCHANGED <<httpVars, extVars>>

NextRepeat ==
    \/ RepeatValidate
    \/ RepeatPredict
    \/ Get
    \/ Clear

SpecRepeat == Init /\ [][NextRepeat]_vars

---------------------------------------------------------------------------
(* validateSequence, then predictNext, on one argument drawn from AllInputs *)

PairValidate ==
    /\ call.op = "constructor"
    /\ ValidateSequence(sequence)
    /\ firstValidation' =
           [sequence |-> sequence, result |-> call'.result, count |-> predictionCount]
    /\ UNCHANGED <<httpVars, extVars>>
PairPredict ==
    /\ call.op = "validateSequence"
    /\ \E now \in Times : PredictNext(sequence, now)
    /\ UNCHANGED <<httpVars, extVars>>

NextPair ==
    \/ PairValidate
    \/ PairPredict

SpecPair == InitFn /\ [][NextPair]_vars

---------------------------------------------------------------------------
(* The web server: server.js, its handlers on the one shared instance *)

\* req.body as express.json() leaves it: an object with a sequence property,
\* an object without one, or undefined when no JSON body was parsed (whether
\* a request without a JSON body gets {} or undefined depends on the Express
\* version, which the repository does not pin)
Body(seq) == [k |-> "object", has |-> TRUE, sequence |-> seq]
EmptyBody == [k |-> "object", has |-> FALSE, sequence |-> NonArray("undefined")]
NoBody == [k |-> "undefined", has |-> FALSE, sequence |-> NonArray("undefined")]

Request(method, path, body) == [method |-> method, path |-> path, body |-> body]

\* the sequences clients post; JSON.parse reads 1e999 as Infinity
HttpSequences ==
    { Arr(Nums(<<5, 10>>)),
      Arr(Nums(<<1, 2, 4, 8>>)),
      Arr(<<Num(1), Infinity>>) }

\* the bodies clients post: a sequence, "sequence": null, no sequence, no body
HttpBodies == {Body(seq) : seq \in HttpSequences} \cup {Body(Null), EmptyBody, NoBody}

\* the requests clients send: the five API routes and one path no route matches
HttpRequests ==
    {Request("POST", "/api/predict", b) : b \in HttpBodies}
        \cup {Request("POST", "/api/validate", b) : b \in HttpBodies}
        \cup { Request("GET", "/api/memories", NoBody),
               Request("DELETE", "/api/memories", NoBody),
               Request("GET", "/api/test", NoBody),
               Request("GET", "/api/unknown", NoBody) }

\* the clock reading of the server's predictions
ServerTimes == {"10:30:45 AM"}

\* the shared instance is not called by the handler
NoCall == [op |-> "none", result |-> Undefined]

\* JSON.stringify of a number: NaN and the infinities become null
jsonNumber(x) == IF x.k \in {"nan", "infinity"} THEN Null ELSE x

\* res.json of a validateSequence or predictNext result
jsonResult(r) ==
    [f \in DOMAIN r |->
        IF f \in {"nextNumber", "commonDifference", "difference"}
        THEN jsonNumber(r[f])
        ELSE r[f]]

\* res.json of the stored entries
jsonMemories(memories) ==
    [i \in 1..Len(memories) |->
        [sequence |-> [j \in 1..Len(memories[i].sequence) |->
                          jsonNumber(memories[i].sequence[j])],
         nextNumber |-> jsonNumber(memories[i].nextNumber),
         commonDifference |-> jsonNumber(memories[i].commonDifference),
         timestamp |-> memories[i].timestamp,
         predictionIndex |-> memories[i].predictionIndex]]

\* mutant: an empty array counts as falsy too
truthyNonEmpty(x) ==
    /\ x.k \notin {"undefined", "null", "false", "emptyString", "nan"}
    /\ ~(x.k = "finite" /\ x.v = 0)
    /\ ~(x.k = "array" /\ x.items = <<>>)

\* a value is truthy: if (!sequence) refuses the others
truthy(x) ==
    /\ x.k \notin {"undefined", "null", "false", "emptyString", "nan"}
    /\ ~(x.k = "finite" /\ x.v = 0)

\* mutant: only null counts as missing
isMissingNullOnly(seq) == seq.k = "null"

\* !sequence
isMissing(seq) == ~truthy(seq)

Respond(c, status, body) ==
    response' = [client |-> c, request |-> inflight[c], status |-> status, body |-> body]

\* the handler of client c's request returns: the request is no longer in flight
Done(c) == inflight' = [inflight EXCEPT ![c] = None]

Routed(c, method, path) ==
    /\ inflight[c] # None
    /\ inflight[c].method = method
    /\ inflight[c].path = path

ServerError(detail) == Message("Server error: ", detail)

\* the instance and the record of its last call are left alone
CoreUntouched ==
    /\ sequence' = Undefined
    /\ call' = NoCall
    /\ UNCHANGED <<echoMemories, predictionCount, successes, lifetime, firstValidation>>

\* a client sends a request
Send(c, req) ==
    /\ inflight[c] = None
    /\ inflight' = [inflight EXCEPT ![c] = req]
    /\ UNCHANGED <<echoMemories, predictionCount, sequence, call, successes, lifetime,
                   firstValidation, response, predicted>>

\* mutant: the handler predicts on an instance of its own
HandlePredictFresh(c) ==
    /\ Routed(c, "POST", "/api/predict")
    /\ inflight[c].body.has
    /\ LET r == predictResult(inflight[c].body.sequence,
                              validateSequence(inflight[c].body.sequence))
       IN  /\ r.success => predicted < MaxPredictions
           /\ Respond(c, 200, jsonResult(r))
           /\ predicted' = IF r.success THEN predicted + 1 ELSE predicted
    /\ CoreUntouched
    /\ Done(c)

\* app.post('/api/predict', ...)
HandlePredict(c) ==
    /\ Routed(c, "POST", "/api/predict")
    /\ IF inflight[c].body = NoBody
       THEN \* const { sequence } = req.body throws, the catch answers
            /\ CoreUntouched
            /\ Respond(c, 500, [success |-> FALSE, message |-> ServerError("TypeError")])
            /\ UNCHANGED predicted
       ELSE IF isMissing(inflight[c].body.sequence)
       THEN /\ CoreUntouched
            /\ Respond(c, 400, [success |-> FALSE,
                                message |-> Message("Sequence is required", Null)])
            /\ UNCHANGED predicted
       ELSE /\ \E now \in ServerTimes : PredictNext(inflight[c].body.sequence, now)
            /\ IF call'.result = TypeError
               THEN /\ Respond(c, 500, [success |-> FALSE,
                                        message |-> ServerError("TypeError")])
                    /\ UNCHANGED predicted
               ELSE /\ Respond(c, 200, jsonResult(call'.result))
                    /\ predicted' =
                           IF call'.result.success THEN predicted + 1 ELSE predicted
    /\ Done(c)

\* app.post('/api/validate', ...)
HandleValidate(c) ==
    /\ Routed(c, "POST", "/api/validate")
    /\ IF inflight[c].body = NoBody
       THEN /\ CoreUntouched
            /\ Respond(c, 500, [isValid |-> FALSE, message |-> ServerError("TypeError")])
       ELSE IF isMissing(inflight[c].body.sequence)
       THEN /\ CoreUntouched
            /\ Respond(c, 400, [isValid |-> FALSE,
                                message |-> Message("Sequence is required", Null)])
       ELSE /\ ValidateSequence(inflight[c].body.sequence)
            /\ UNCHANGED firstValidation
            /\ IF call'.result = TypeError
               THEN Respond(c, 500, [isValid |-> FALSE,
                                     message |-> ServerError("TypeError")])
               ELSE Respond(c, 200, jsonResult(call'.result))
    /\ UNCHANGED predicted
    /\ Done(c)

\* mutant: count is one more than the entries returned
HandleGetMemoriesOffByOne(c) ==
    /\ Routed(c, "GET", "/api/memories")
    /\ GetMemories
    /\ Respond(c, 200, [memories |-> jsonMemories(call'.result),
                        count |-> Len(call'.result) + 1])
    /\ UNCHANGED predicted
    /\ Done(c)

\* app.get('/api/memories', ...)
HandleGetMemories(c) ==
    /\ Routed(c, "GET", "/api/memories")
    /\ GetMemories
    /\ Respond(c, 200, [memories |-> jsonMemories(call'.result),
                        count |-> Len(call'.result)])
    /\ UNCHANGED predicted
    /\ Done(c)

\* mutant: the handler answers without clearing
HandleDeleteMemoriesOnlyAnswers(c) ==
    /\ Routed(c, "DELETE", "/api/memories")
    /\ CoreUntouched
    /\ Respond(c, 200, [success |-> TRUE,
                        message |-> Message("All memories have been cleared", Null)])
    /\ predicted' = 0
    /\ Done(c)

\* app.delete('/api/memories', ...)
HandleDeleteMemories(c) ==
    /\ Routed(c, "DELETE", "/api/memories")
    /\ ClearMemories
    /\ Respond(c, 200, [success |-> TRUE,
                        message |-> Message("All memories have been cleared", Null)])
    /\ predicted' = 0
    /\ Done(c)

\* mutant: the self-test passes its sequence as a string
freshPredictOfString(seq) == predictResult(NonArray("string"), validateSequence(NonArray("string")))

\* testChamber.predictNext(seq) on a new EchoChamber()
freshPredict(seq) == predictResult(seq, validateSequence(seq))

\* mutant: the self-test runs on the shared instance
HandleTestOnShared(c) ==
    /\ Routed(c, "GET", "/api/test")
    /\ \E now \in ServerTimes : PredictNext(Arr(Nums(<<3, 6, 9, 12>>)), now)
    /\ Respond(c, 200, [success |-> call'.result.success,
                        result |-> jsonResult(call'.result),
                        message |-> Message("Server is working correctly", Null)])
    /\ UNCHANGED predicted
    /\ Done(c)

\* app.get('/api/test', ...)
HandleTest(c) ==
    /\ Routed(c, "GET", "/api/test")
    /\ CoreUntouched
    /\ LET r == freshPredict(Arr(Nums(<<3, 6, 9, 12>>)))
       IN  Respond(c, 200, [success |-> r.success,
                            result |-> jsonResult(r),
                            message |-> Message("Server is working correctly", Null)])
    /\ UNCHANGED predicted
    /\ Done(c)

\* the routes of the API
Routes ==
    { <<"POST", "/api/predict">>, <<"GET", "/api/memories">>,
      <<"DELETE", "/api/memories">>, <<"POST", "/api/validate">>,
      <<"GET", "/api/test">> }

\* mutant: the status is left at its default
HandleNotFoundNoStatus(c) ==
    /\ inflight[c] # None
    /\ <<inflight[c].method, inflight[c].path>> \notin Routes
    /\ CoreUntouched
    /\ Respond(c, 200, [success |-> FALSE,
                        message |-> Message("Endpoint not found", Null)])
    /\ UNCHANGED predicted
    /\ Done(c)

\* app.use((req, res) => res.status(404)...): no route matched
HandleNotFound(c) ==
    /\ inflight[c] # None
    /\ <<inflight[c].method, inflight[c].path>> \notin Routes
    /\ CoreUntouched
    /\ Respond(c, 404, [success |-> FALSE,
                        message |-> Message("Endpoint not found", Null)])
    /\ UNCHANGED predicted
    /\ Done(c)

SendRequest == (\E c \in Clients : \E req \in HttpRequests : Send(c, req)) /\ UNCHANGED extVars
Predicting == (\E c \in Clients : HandlePredict(c)) /\ UNCHANGED extVars
Validating == (\E c \in Clients : HandleValidate(c)) /\ UNCHANGED extVars
GettingMemories == (\E c \in Clients : HandleGetMemories(c)) /\ UNCHANGED extVars
DeletingMemories == (\E c \in Clients : HandleDeleteMemories(c)) /\ UNCHANGED extVars
Testing == (\E c \in Clients : HandleTest(c)) /\ UNCHANGED extVars
NotFound == (\E c \in Clients : HandleNotFound(c)) /\ UNCHANGED extVars

\* requests arrive at any time; each handler runs to completion in one step of
\* the event loop, in any order among the requests in flight
NextHttp ==
    \/ SendRequest
    \/ Predicting
    \/ Validating
    \/ GettingMemories
    \/ DeletingMemories
    \/ Testing
    \/ NotFound

SpecHttp == Init /\ [][NextHttp]_vars

---------------------------------------------------------------------------
(* The web server, one client: every kind of sequence value a JSON body can *)
(* hold and requests that no route matches                                   *)

\* the values of "sequence" in a posted body: falsy ones, non-arrays, arrays
EdgeValues ==
    { Null, Num(0), NonArray("false"), NonArray("emptyString"),
      Num(1), NonArray("true"), NonArray("string"), NonArray("object"),
      Arr(<<>>), Arr(<<Num(1)>>), Arr(<<Num(1), Str>>),
      Arr(Nums(<<5, 10>>)), Arr(Nums(<<1, 2, 4, 8>>)) }

EdgeBodies == {Body(v) : v \in EdgeValues} \cup {EmptyBody}

\* requests no route matches: another method on an API path, an unknown path
UnroutedRequests ==
    { Request("PUT", "/api/predict", Body(Arr(Nums(<<5, 10>>)))),
      Request("GET", "/api/predict", NoBody),
      Request("POST", "/api/memories", EmptyBody),
      Request("POST", "/api/test", EmptyBody),
      Request("DELETE", "/api/validate", NoBody),
      Request("GET", "/api/unknown", NoBody),
      Request("POST", "/predict", Body(Arr(Nums(<<5, 10>>)))) }

EdgeRequests ==
    {Request("POST", "/api/predict", b) : b \in EdgeBodies}
        \cup {Request("POST", "/api/validate", b) : b \in EdgeBodies}
        \cup UnroutedRequests

SendEdge == (\E req \in EdgeRequests : Send("c1", req)) /\ UNCHANGED extVars
PredictingEdge == HandlePredict("c1") /\ UNCHANGED extVars
ValidatingEdge == HandleValidate("c1") /\ UNCHANGED extVars
NotFoundEdge == HandleNotFound("c1") /\ UNCHANGED extVars

NextEdge ==
    \/ SendEdge
    \/ PredictingEdge
    \/ ValidatingEdge
    \/ NotFoundEdge

SpecEdge == Init /\ [][NextEdge]_vars

---------------------------------------------------------------------------
(* The console: EchoChamberUI and its menu, on the instance it constructs *)

\* runTests: testCases, expected: null written Null
testCases ==
    << [sequence |-> Arr(Nums(<<3, 6, 9, 12>>)), expected |-> Num(15)],
       [sequence |-> Arr(Nums(<<10, 7, 4, 1>>)), expected |-> Num(-2)],
       [sequence |-> Arr(Nums(<<100, 200, 300, 400>>)), expected |-> Num(500)],
       [sequence |-> Arr(Nums(<<-5, -3, -1, 1>>)), expected |-> Num(3)],
       [sequence |-> Arr(Nums(<<1, 2>>)), expected |-> Num(3)],
       [sequence |-> Arr(Nums(<<1, 2, 4, 8>>)), expected |-> Null] >>

\* the clock reading of the console's predictions outside the test runs
ConsoleTimes == {"10:30:45 AM"}

\* the test case passes
passes(testCase, r) ==
    IF testCase.expected = Null
    THEN ~r.success
    ELSE r.success /\ JsStrictEq(r.nextNumber, testCase.expected)

\* testCases.forEach(testCase => { const result = chamber.predictNext(...) ... })
\* from test case i on, on a chamber holding memories and count
\* (a run is over within one reading, now, of the clock)
RECURSIVE forEachTestCase(_, _, _, _, _, _)
forEachTestCase(i, now, memories, count, passedTests, failedTests) ==
    IF i > Len(testCases)
    THEN [memories |-> memories, count |-> count,
          passedTests |-> passedTests, failedTests |-> failedTests]
    ELSE LET seq == testCases[i].sequence
             validation == validateSequence(seq)
             r == predictResult(seq, validation)
             ok == passes(testCases[i], r)
         IN  forEachTestCase(
                 i + 1, now,
                 IF validation.isValid
                 THEN push(memories, memoryEntry(seq, validation, now, count))
                 ELSE memories,
                 IF validation.isValid THEN increment(count) ELSE count,
                 IF ok THEN passedTests + 1 ELSE passedTests,
                 IF ok THEN failedTests ELSE failedTests + 1)

\* mutant: the tests run on a chamber of their own
RunTestsOnScratch ==
    /\ lifetime < MaxRuns * Len(testCases)
    /\ \E now \in Times :
           LET run == forEachTestCase(1, now, <<>>, 0, 0, 0)
           IN  call' = [op |-> "runTests",
                        result |-> [passedTests |-> run.passedTests,
                                    failedTests |-> run.failedTests]]
    /\ sequence' = testCases[Len(testCases)].sequence
    /\ UNCHANGED <<echoMemories, predictionCount, successes, lifetime, firstValidation>>

\* menu choice 3: runTests() on this.chamber
RunTests ==
    /\ lifetime < MaxRuns * Len(testCases)
    /\ \E now \in Times :
           LET run == forEachTestCase(1, now, echoMemories, predictionCount, 0, 0)
           IN  /\ echoMemories' = run.memories
               /\ predictionCount' = run.count
               /\ successes' = successes + (run.count - predictionCount)
               /\ lifetime' = lifetime + (run.count - predictionCount)
               /\ call' = [op |-> "runTests",
                           result |-> [passedTests |-> run.passedTests,
                                       failedTests |-> run.failedTests]]
    /\ sequence' = testCases[Len(testCases)].sequence
    /\ UNCHANGED firstValidation

\* what the user types in prediction mode, as input.split(',').map(parseFloat)
\* reads it: "demo", lists of numbers, and a text with a part that is no number
ConsoleInputs ==
    { [text |-> "demo", parsed |-> Arr(Nums(<<3, 6, 9, 12>>))],
      [text |-> "5,10", parsed |-> Arr(Nums(<<5, 10>>))],
      [text |-> "1,2,4,8", parsed |-> Arr(Nums(<<1, 2, 4, 8>>))],
      [text |-> "7", parsed |-> Arr(Nums(<<7>>))],
      [text |-> "1,x", parsed |-> None] }

\* menu choice 1: predictMode()
PredictMode(input) ==
    IF input.parsed = None
    THEN \* Error parsing input: the chamber is not called
         /\ call' = [op |-> "predictMode", result |-> Message("Error parsing input: ", Str)]
         /\ sequence' = Undefined
         /\ UNCHANGED <<echoMemories, predictionCount, successes, lifetime, firstValidation>>
    ELSE \E now \in ConsoleTimes : PredictNext(input.parsed, now)

\* menu choice 2: displayMemories(), the echoes it prints
DisplayMemories ==
    /\ call' = [op |-> "displayMemories", result |-> echoMemories]
    /\ UNCHANGED <<echoMemories, predictionCount, sequence, successes, lifetime,
                   firstValidation>>

ConsolePredict == (\E input \in ConsoleInputs : PredictMode(input)) /\ UNCHANGED <<httpVars, extVars>>
ConsoleView == DisplayMemories /\ UNCHANGED <<httpVars, extVars>>
ConsoleTests == RunTests /\ UNCHANGED <<httpVars, extVars>>
ConsoleClear == ClearMemories /\ UNCHANGED <<httpVars, extVars>>

\* the menu loop of start(): one choice after the other
NextConsole ==
    \/ ConsolePredict
    \/ ConsoleView
    \/ ConsoleTests
    \/ ConsoleClear

SpecConsole == Init /\ [][NextConsole]_vars

---------------------------------------------------------------------------
(* A caller of the class and the array objects it shares with the instance *)

\* return this.echoMemories: the caller gets the array object itself, not a
\* copy (current: the array is the instance's; items: its elements once it
\* no longer is)
returnedArray(memories) == [current |-> TRUE, items |-> <<>>]

\* the elements of the array the caller holds
heldItems ==
    IF caller.held.current THEN echoMemories ELSE caller.held.items

\* mutant: sequence: sequence, the entry keeps the caller's array
sameArray(index) == {index}

\* sequence: [...sequence]: a new array; the stored entries that share the
\* caller's array after the entry is stored at index
spreadCopy(index) == {}

\* what callers pass to predictNext
AliasSequences == {Arr(Nums(<<5, 10>>)), Arr(Nums(<<1, 2, 4, 8>>))}

\* an entry object of the caller's making
forgedEntry ==
    [sequence |-> <<>>, nextNumber |-> Num(0), commonDifference |-> Num(0),
     timestamp |-> "", predictionIndex |-> 0]

\* const memories = chamber.getMemories()
AliasGet ==
    /\ GetMemories
    /\ caller' = [caller EXCEPT !.held = returnedArray(echoMemories)]
    /\ UNCHANGED <<httpVars, threads, page>>

\* chamber.clearMemories(): this.echoMemories = [] makes a new array, the
\* one the caller holds keeps its elements
AliasClear ==
    /\ ClearMemories
    /\ caller' =
           [caller EXCEPT
               !.held = IF caller.held # None /\ caller.held.current
                        THEN [current |-> FALSE, items |-> echoMemories]
                        ELSE @,
               !.shared = {}]
    /\ UNCHANGED <<httpVars, threads, page>>

\* const input = [...]; chamber.predictNext(input)
AliasPredict ==
    /\ \E seq \in AliasSequences : \E now \in ConsoleTimes :
           /\ PredictNext(seq, now)
           /\ caller' =
                  [caller EXCEPT
                      !.input = seq,
                      !.shared = IF call'.result.success
                                 THEN spreadCopy(Len(echoMemories'))
                                 ELSE {}]
    /\ UNCHANGED <<httpVars, threads, page>>

\* the elements of the held array become items
HeldBecomes(items) ==
    IF caller.held.current
    THEN /\ echoMemories' = items
         /\ caller' = [caller EXCEPT !.shared = @ \cap (1..Len(items))]
    ELSE /\ caller' = [caller EXCEPT !.held.items = items]
         /\ UNCHANGED echoMemories

\* memories.push({...})
CallerPush ==
    /\ caller.held # None
    /\ Len(heldItems) <= MaxPredictions
    /\ HeldBecomes(Append(heldItems, forgedEntry))
    /\ call' = [op |-> "callerPush", result |-> Undefined]
    /\ UNCHANGED <<predictionCount, sequence, successes, lifetime, firstValidation,
                   httpVars, threads, page>>

\* memories.pop()
CallerPop ==
    /\ caller.held # None
    /\ heldItems # <<>>
    /\ HeldBecomes(SubSeq(heldItems, 1, Len(heldItems) - 1))
    /\ call' = [op |-> "callerPop", result |-> Undefined]
    /\ UNCHANGED <<predictionCount, sequence, successes, lifetime, firstValidation,
                   httpVars, threads, page>>

\* memories[0].predictionIndex = 0
CallerAssign ==
    /\ caller.held # None
    /\ heldItems # <<>>
    /\ heldItems[1].predictionIndex # 0
    /\ HeldBecomes([heldItems EXCEPT ![1].predictionIndex = 0])
    /\ call' = [op |-> "callerAssign", result |-> Undefined]
    /\ UNCHANGED <<predictionCount, sequence, successes, lifetime, firstValidation,
                   httpVars, threads, page>>

\* input[0] = 0, on the array passed to the last predictNext
CallerMutatesInput ==
    /\ caller.input # None
    /\ caller.input.items[1] # Num(0)
    /\ LET items == [caller.input.items EXCEPT ![1] = Num(0)]
       IN  /\ caller' = [caller EXCEPT !.input = Arr(items)]
           /\ echoMemories' =
                  [k \in 1..Len(echoMemories) |->
                      IF k \in caller.shared
                      THEN [echoMemories[k] EXCEPT !.sequence = items]
                      ELSE echoMemories[k]]
    /\ call' = [op |-> "mutateInput", result |-> Undefined]
    /\ UNCHANGED <<predictionCount, sequence, successes, lifetime, firstValidation,
                   httpVars, threads, page>>

NextAlias ==
    \/ AliasGet
    \/ AliasClear
    \/ AliasPredict
    \/ CallerPush
    \/ CallerPop
    \/ CallerAssign
    \/ CallerMutatesInput

SpecAlias == Init /\ [][NextAlias]_vars

---------------------------------------------------------------------------
(* predictNext called by parallel threads: its append and its increment are *)
(* separate steps, with or without a lock around them                        *)

\* what the threads pass to predictNext
ThreadSequences ==
    {Arr(Nums(<<5, 10>>)), Arr(Nums(<<10, 7, 4, 1>>)), Arr(Nums(<<1, 2, 4, 8>>))}

\* the instance at the start, with the lock in use or not
InitThreads ==
    /\ echoMemories = <<>>
    /\ predictionCount = 0
    /\ sequence = Undefined
    /\ call = [op |-> "constructor", result |-> Undefined]
    /\ successes = 0
    /\ lifetime = 0
    /\ firstValidation = None
    /\ ServerStarted
    /\ NoReferences
    /\ PageLoaded
    /\ \E useLock \in BOOLEAN :
           threads = [useLock |-> useLock, lock |-> "free",
                      pc |-> [t \in Threads |-> "idle"],
                      read |-> [t \in Threads |-> 0],
                      overlapped |-> FALSE]

ThreadFrame == UNCHANGED <<firstValidation, httpVars, caller, page>>

\* the thread takes the lock that guards the append and the increment
Acquire(t) ==
    /\ threads.useLock
    /\ threads.pc[t] = "idle"
    /\ threads.lock = "free"
    /\ threads' = [threads EXCEPT !.lock = t, !.pc[t] = "locked"]
    /\ UNCHANGED <<echoMemories, predictionCount, sequence, call, successes, lifetime>>
    /\ ThreadFrame

\* the thread gives the lock back
Release(t) ==
    /\ threads.pc[t] = "written"
    /\ threads' = [threads EXCEPT !.lock = "free", !.pc[t] = "idle"]
    /\ UNCHANGED <<echoMemories, predictionCount, sequence, call, successes, lifetime>>
    /\ ThreadFrame

\* predictNext(seq) up to its return for a sequence the validation refuses
ThreadRefused(t, seq) ==
    /\ threads.pc[t] = "idle"
    /\ ~validateSequence(seq).isValid
    /\ sequence' = seq
    /\ call' = [op |-> "predictNext", result |-> predictResult(seq, validateSequence(seq))]
    /\ UNCHANGED <<echoMemories, predictionCount, successes, lifetime, threads>>
    /\ ThreadFrame

\* predictNext(seq) up to this.echoMemories.push({..., predictionIndex:
\* this.predictionCount + 1})
ThreadPush(t, seq, now) ==
    /\ threads.pc[t] = IF threads.useLock THEN "locked" ELSE "idle"
    /\ validateSequence(seq).isValid
    /\ Len(echoMemories) < MaxPredictions
    /\ echoMemories' =
           push(echoMemories,
                memoryEntry(seq, validateSequence(seq), now, predictionCount))
    /\ sequence' = seq
    /\ call' = [op |-> "predictNext", result |-> predictResult(seq, validateSequence(seq))]
    /\ threads' =
           [threads EXCEPT
               !.pc[t] = "pushed",
               !.overlapped =
                   @ \/ \E u \in Threads \ {t} : threads.pc[u] \in {"pushed", "read"}]
    /\ UNCHANGED <<predictionCount, successes, lifetime>>
    /\ ThreadFrame

\* this.predictionCount++, first half: the counter is read
ThreadRead(t) ==
    /\ threads.pc[t] = "pushed"
    /\ threads' = [threads EXCEPT !.pc[t] = "read", !.read[t] = predictionCount]
    /\ UNCHANGED <<echoMemories, predictionCount, sequence, call, successes, lifetime>>
    /\ ThreadFrame

\* this.predictionCount++, second half: the value read plus one is written
ThreadWrite(t) ==
    /\ threads.pc[t] = "read"
    /\ predictionCount' = increment(threads.read[t])
    /\ successes' = successes + 1
    /\ lifetime' = lifetime + 1
    /\ threads' = [threads EXCEPT !.pc[t] = IF threads.useLock THEN "written" ELSE "idle"]
    /\ UNCHANGED <<echoMemories, sequence, call>>
    /\ ThreadFrame

NextThreads ==
    \/ \E t \in Threads : Acquire(t)
    \/ \E t \in Threads : Release(t)
    \/ \E t \in Threads : \E seq \in ThreadSequences : ThreadRefused(t, seq)
    \/ \E t \in Threads : \E seq \in ThreadSequences : \E now \in ConsoleTimes :
           ThreadPush(t, seq, now)
    \/ \E t \in Threads : ThreadRead(t)
    \/ \E t \in Threads : ThreadWrite(t)

SpecThreads == InitThreads /\ [][NextThreads]_vars

---------------------------------------------------------------------------
(* The web page: app.js, predictSequence with apiPredict and updateMemories *)
(* against the server                                                        *)

\* the text of the input field and what parseSequence(input) returns for it
\* (None for null)
WebInputs ==
    { [text |-> "1, x", parsed |-> None],
      [text |-> "5, 10", parsed |-> Arr(Nums(<<5, 10>>))],
      [text |-> "1, 2, 4, 8", parsed |-> Arr(Nums(<<1, 2, 4, 8>>))] }

MsgEnterNumbers ==
    Message("Please enter valid numbers separated by commas (e.g., 3, 6, 9, 12)", Null)
MsgConnecting == Message("Error connecting to server: ", Str)

\* a fetch that rejected (written as status 0); apiPredict's catch treats a
\* response that is not ok the same way
FetchFailures == {[status |-> 0, body |-> None]}

\* response.ok
ok(reply) == reply.status >= 200 /\ reply.status <= 299

\* what apiPredict returns for the outcome of its fetch
apiPredictResult(reply) ==
    IF ok(reply) THEN reply.body ELSE [success |-> FALSE, message |-> MsgConnecting]

\* what apiGetMemories returns for the outcome of its fetch
apiGetMemoriesResult(reply) ==
    IF ok(reply) THEN reply.body ELSE [memories |-> <<>>, count |-> 0, error |-> Str]

\* mutant: the button is left as it is
finallyKept(disabled) == disabled

\* finally { btn.disabled = false }
finallyEnabled(disabled) == FALSE

WebCoreUnchanged ==
    UNCHANGED <<echoMemories, predictionCount, sequence, call, successes, lifetime,
                firstValidation>>

\* predictSequence() up to its first await
PredictSequence(c, input) ==
    /\ page.pc[c] = "idle"
    /\ IF input.parsed = None
       THEN \* showResult({success: false, ...}); return
            /\ page' = [page EXCEPT
                           !.shown = [success |-> FALSE, message |-> MsgEnterNumbers],
                           !.event = [name |-> "predictSequence", call |-> c,
                                      input |-> input.text]]
            /\ WebCoreUnchanged
            /\ UNCHANGED httpVars
       ELSE \* btn.disabled = true; apiPredict(sequence): fetch('/api/predict', ...)
            /\ page' = [page EXCEPT
                           !.disabled = TRUE,
                           !.pc[c] = "awaitPredict",
                           !.event = [name |-> "predictSequence", call |-> c,
                                      input |-> input.text]]
            /\ Send(c, Request("POST", "/api/predict", Body(input.parsed)))
    /\ UNCHANGED <<caller, threads>>

\* the server handles the request of call c and its fetch resolves
ServerAnswers(c) ==
    /\ \/ HandlePredict(c)
       \/ HandleGetMemories(c)
    /\ page' = [page EXCEPT !.reply[c] = [status |-> response'.status,
                                          body |-> response'.body]]
    /\ UNCHANGED <<caller, threads>>

\* the fetch of call c fails before the server has handled the request
FetchFails(c) ==
    /\ inflight[c] # None
    /\ inflight' = [inflight EXCEPT ![c] = None]
    /\ \E outcome \in FetchFailures : page' = [page EXCEPT !.reply[c] = outcome]
    /\ WebCoreUnchanged
    /\ UNCHANGED <<response, predicted, caller, threads>>

\* predictSequence() from the end of await apiPredict(sequence) to its next
\* await or its end
AfterPredict(c) ==
    /\ page.pc[c] = "awaitPredict"
    /\ page.reply[c] # None
    /\ LET r == apiPredictResult(page.reply[c])
       IN  IF r.success
           THEN \* showResult(result); updateMemories(): fetch('/api/memories')
                /\ page' = [page EXCEPT
                               !.shown = r,
                               !.pc[c] = "awaitMemories",
                               !.reply[c] = None,
                               !.event = [name |-> "afterPredict", call |-> c,
                                          input |-> ""]]
                /\ Send(c, Request("GET", "/api/memories", NoBody))
           ELSE \* showResult(result); finally
                /\ page' = [page EXCEPT
                               !.shown = r,
                               !.disabled = finallyEnabled(@),
                               !.pc[c] = "idle",
                               !.reply[c] = None,
                               !.event = [name |-> "afterPredict", call |-> c,
                                          input |-> ""]]
                /\ WebCoreUnchanged
                /\ UNCHANGED httpVars
    /\ UNCHANGED <<caller, threads>>

\* predictSequence() from the end of await updateMemories() to its end
AfterMemories(c) ==
    /\ page.pc[c] = "awaitMemories"
    /\ page.reply[c] # None
    /\ page' = [page EXCEPT
                   !.panel = apiGetMemoriesResult(page.reply[c]).count,
                   !.disabled = finallyEnabled(@),
                   !.pc[c] = "idle",
                   !.reply[c] = None,
                   !.event = [name |-> "afterMemories", call |-> c, input |-> ""]]
    /\ WebCoreUnchanged
    /\ UNCHANGED <<httpVars, caller, threads>>

\* the fetch of call c settles
Settle(c) == ServerAnswers(c) \/ FetchFails(c)

\* call c goes on after its await
Resume(c) == AfterPredict(c) \/ AfterMemories(c)

\* the button's onclick, the Enter key and loadExample's timer call
\* predictSequence at any time, also while an earlier call is waiting
NextWeb ==
    \/ \E c \in Clients : \E input \in WebInputs : PredictSequence(c, input)
    \/ \E c \in Clients : ServerAnswers(c)
    \/ \E c \in Clients : FetchFails(c)
    \/ \E c \in Clients : AfterPredict(c)
    \/ \E c \in Clients : AfterMemories(c)

\* every fetch settles and every settled await is resumed by the event loop
SpecWeb ==
    /\ Init
    /\ [][NextWeb]_vars
    /\ \A c \in Clients : WF_vars(Settle(c)) /\ WF_vars(Resume(c))

---------------------------------------------------------------------------
(* Properties *)

items == sequence.items
result == call.result
Last(s) == s[Len(s)]
AllFinite(s) == \A i \in 1..Len(s) : s[i].k = "finite"

\* C1: in every state the entries carry the indices 1, 2, ..., N in list
\* order and predictionCount equals the number N of entries.
C1_DenseIndices ==
    /\ predictionCount = Len(echoMemories)
    /\ \A i \in 1..Len(echoMemories) : echoMemories[i].predictionIndex = i

\* two entries stored after an earlier clearMemories
C1_Witness ==
    /\ Len(echoMemories) >= 2
    /\ lifetime > successes

\* C2: predictNext on an array of at least two finite numbers whose
\* consecutive differences all equal d succeeds with nextNumber = last + d
\* and commonDifference = d.
C2_ConstantStepPredicted ==
    (/\ call.op = "predictNext"
     /\ isArray(sequence)
     /\ Len(items) >= 2
     /\ AllFinite(items))
    => LET d == items[2].v - items[1].v
       IN  (\A i \in 1..(Len(items) - 1) : items[i + 1].v - items[i].v = d)
           => /\ result.success = TRUE
              /\ result.nextNumber = Num(Last(items).v + d)
              /\ result.commonDifference = Num(d)

\* a two-element array with a negative step has been predicted
C2_Witness ==
    /\ call.op = "predictNext"
    /\ isArray(sequence)
    /\ Len(items) = 2
    /\ AllFinite(items)
    /\ items[2].v < items[1].v
    /\ result.success

\* C3: validateSequence on an array of at least two valid numbers (typeof
\* number, not NaN) answers isValid = TRUE exactly when every consecutive
\* difference is === to the first one, with difference = the first one, and
\* isValid = FALSE with difference = null otherwise; on finite numbers this
\* is equality of the integer differences.
C3_ValidIffConstantDifference ==
    (/\ call.op = "validateSequence"
     /\ isArray(sequence)
     /\ Len(items) >= 2
     /\ \A i \in 1..Len(items) : items[i].k \in {"finite", "infinity"})
    => LET first == JsSub(items[2], items[1])
           constant ==
               \A i \in 1..(Len(items) - 1) :
                   JsStrictEq(JsSub(items[i + 1], items[i]), first)
       IN  /\ result.isValid = constant
           /\ result.difference = IF constant THEN first ELSE Null
           /\ AllFinite(items)
              => /\ result.isValid =
                        (\A i \in 1..(Len(items) - 1) :
                            items[i + 1].v - items[i].v = items[2].v - items[1].v)
                 /\ result.isValid => result.difference = Num(items[2].v - items[1].v)

\* four finite numbers rejected although the first two differences agree
C3_Witness ==
    /\ call.op = "validateSequence"
    /\ isArray(sequence)
    /\ Len(items) = 4
    /\ AllFinite(items)
    /\ items[2].v - items[1].v = items[3].v - items[2].v
    /\ ~result.isValid
    /\ result.difference = Null

\* C4: validateSequence and predictNext reject every non-array, every array
\* of length 0 or 1, and every array holding a non-number or NaN element.
C4_RejectsBadInput ==
    (/\ call.op \in {"validateSequence", "predictNext"}
     /\ \/ ~isArray(sequence)
        \/ Len(items) < 2
        \/ \E i \in 1..Len(items) : ~typeofNumber(items[i]) \/ items[i].k = "nan")
    => IF call.op = "validateSequence"
       THEN result.isValid = FALSE
       ELSE result.success = FALSE

\* predictNext has rejected an array whose numbers around a null are in progression
C4_Witness ==
    /\ call.op = "predictNext"
    /\ isArray(sequence)
    /\ Len(items) >= 2
    /\ \E i \in 1..Len(items) : items[i] = Null
    /\ \A i \in 1..Len(items) : items[i] \in {Null, Num(0)}
    /\ ~result.success

\* C5: validateSequence answers isValid = FALSE with difference = null for
\* every array holding an element that is not a finite number (+/-Infinity,
\* NaN, non-numbers), and predictNext neither succeeds nor stores an entry
\* for it.
C5_RejectsNonFinite ==
    (/\ call.op \in {"validateSequence", "predictNext"}
     /\ isArray(sequence)
     /\ \E i \in 1..Len(items) : items[i].k # "finite")
    => IF call.op = "validateSequence"
       THEN result.isValid = FALSE /\ result.difference = Null
       ELSE result.success = FALSE /\ echoMemories = <<>>

\* C6: a successful predictNext appends exactly one entry at the end, with
\* the input's elements, the returned nextNumber and commonDifference and
\* index = previous counter + 1, adds 1 to the counter and leaves the
\* earlier entries as they were.
C6_SuccessAppendsOne ==
    [][(call'.op = "predictNext" /\ call'.result.success)
       => /\ Len(echoMemories') = Len(echoMemories) + 1
          /\ SubSeq(echoMemories', 1, Len(echoMemories)) = echoMemories
          /\ Last(echoMemories').sequence = sequence'.items
          /\ Last(echoMemories').nextNumber = call'.result.nextNumber
          /\ Last(echoMemories').commonDifference = call'.result.commonDifference
          /\ Last(echoMemories').predictionIndex = predictionCount + 1
          /\ predictionCount' = predictionCount + 1]_vars

\* a successful predictNext on a history that already held an entry
C6_Witness ==
    /\ call.op = "predictNext"
    /\ result.success
    /\ Len(echoMemories) >= 2
    /\ echoMemories[1].sequence # Last(echoMemories).sequence

\* C7: a predictNext that fails validation changes neither the history nor
\* the counter, and the history length is the number of successful
\* predictNext calls since the last clearMemories (or construction).
C7_FailureStoresNothing ==
    /\ [][(call'.op = "predictNext" /\ ~call'.result.success)
          => UNCHANGED <<echoMemories, predictionCount>>]_vars
    /\ [](Len(echoMemories) = successes)

\* a failed predictNext on a non-empty history
C7_Witness ==
    /\ call.op = "predictNext"
    /\ ~result.success
    /\ Len(echoMemories) >= 1

\* C8: clearMemories leaves the history empty and the counter 0 from any
\* state, and the first successful predictNext after it stores index 1.
C8_ClearResets ==
    [][/\ call'.op = "clearMemories"
          => echoMemories' = <<>> /\ predictionCount' = 0
       /\ (successes = 0 /\ call'.op = "predictNext" /\ call'.result.success)
          => /\ Len(echoMemories') = 1
             /\ echoMemories'[1].predictionIndex = 1]_vars

\* an entry with index 1 stored after a clearMemories that discarded two
C8_Witness ==
    /\ call.op = "predictNext"
    /\ result.success
    /\ successes = 1
    /\ lifetime >= 3
    /\ echoMemories[1].predictionIndex = 1

\* C9: validateSequence, on valid and invalid input, leaves the history and
\* the counter as they were.
C9_ValidateMutatesNothing ==
    [][call'.op = "validateSequence"
       => UNCHANGED <<echoMemories, predictionCount>>]_vars

\* a valid sequence validated on a non-empty history that does not hold it
C9_Witness ==
    /\ call.op = "validateSequence"
    /\ result.isValid
    /\ Len(echoMemories) >= 1
    /\ \A i \in 1..Len(echoMemories) : echoMemories[i].sequence # items

C11_FailurePropagatesMessage ==
    (/\ call.op = "predictNext"
     /\ firstValidation # None
     /\ firstValidation.sequence = sequence
     /\ firstValidation.result # TypeError
     /\ firstValidation.result.isValid = FALSE)
    => /\ result # TypeError
       /\ result.success = FALSE
       /\ result.nextNumber = Null
       /\ result.message = firstValidation.result.message

\* predictNext has refused four numbers not in progression with validateSequence's words
C11_Witness ==
    /\ call.op = "predictNext"
    /\ firstValidation # None
    /\ firstValidation.sequence = sequence
    /\ firstValidation.result.message = MsgNotArithmetic
    /\ Len(items) = 4
    /\ result.success = FALSE
    /\ result.message = MsgNotArithmetic

\* the argument is one the validation refuses for its shape: no array, an
\* array of fewer than two elements, or an array with a non-number element
BadShape(seq) ==
    \/ ~isArray(seq)
    \/ Len(seq.items) < 2
    \/ \E i \in 1..Len(seq.items) : ~typeofNumber(seq.items[i]) \/ seq.items[i].k = "nan"

\* C13: validateSequence and predictNext throw for no argument, and for a
\* non-array, an empty or one-element array or an array with a non-number
\* element they return isValid/success = false with a non-empty message.
C13_NeverThrows ==
    call.op \in {"validateSequence", "predictNext"}
    => /\ result # TypeError
       /\ BadShape(sequence)
          => /\ IF call.op = "validateSequence"
                THEN result.isValid = FALSE
                ELSE result.success = FALSE
             /\ result.message.text # ""

\* predictNext has returned a failure for an array that holds a Symbol after two numbers
C13_Witness ==
    /\ call.op = "predictNext"
    /\ isArray(sequence)
    /\ Len(items) = 3
    /\ items[1] = Num(0)
    /\ items[2] = Num(1)
    /\ items[3] = Sym
    /\ result.success = FALSE
    /\ result.message = MsgNotNumbers

IsNumberOrNull(x) == x.k \in {"finite", "infinity", "nan", "null"}

\* C14: every object predictNext returns has the fields success, nextNumber,
\* commonDifference and message, commonDifference a number or null; every
\* object validateSequence returns has isValid, difference (a number or
\* null) and message.
C14_ResultFields ==
    /\ call.op = "predictNext"
       => /\ DOMAIN result = {"success", "nextNumber", "commonDifference", "message"}
          /\ IsNumberOrNull(result.commonDifference)
    /\ call.op = "validateSequence"
       => /\ DOMAIN result = {"isValid", "difference", "message"}
          /\ IsNumberOrNull(result.difference)

\* C12: getMemories returns all stored entries, oldest first, changes neither
\* the history nor the counter, and returns the empty list when nothing has
\* been predicted since construction or since the last clearMemories.
C12_GetMemoriesReadsAll ==
    /\ [][call'.op = "getMemories"
          => /\ call'.result = echoMemories
             /\ UNCHANGED <<echoMemories, predictionCount>>]_vars
    /\ [](call.op = "getMemories"
          => /\ Len(result) = successes
             /\ \A i \in 1..Len(result) : result[i].predictionIndex = i
             /\ successes = 0 => result = <<>>)

\* getMemories has returned two entries stored after an earlier clearMemories
C12_Witness ==
    /\ call.op = "getMemories"
    /\ Len(result) >= 2
    /\ result[1].sequence # result[2].sequence
    /\ lifetime > successes

\* C15: a step that changes the history or the counter is a successful
\* predictNext, which appends one entry and adds 1 to the counter, or a
\* clearMemories, which leaves the history empty and the counter 0.
C15_OnlyPredictAndClearMutate ==
    [][<<echoMemories, predictionCount>>' # <<echoMemories, predictionCount>>
       => \/ /\ call'.op = "predictNext"
             /\ call'.result # TypeError
             /\ call'.result.success
             /\ Len(echoMemories') = Len(echoMemories) + 1
             /\ SubSeq(echoMemories', 1, Len(echoMemories)) = echoMemories
             /\ predictionCount' = predictionCount + 1
          \/ /\ call'.op = "clearMemories"
             /\ echoMemories' = <<>>
             /\ predictionCount' = 0]_vars

\* a clearMemories that has discarded at least two entries
C15_Witness ==
    /\ call.op = "clearMemories"
    /\ echoMemories = <<>>
    /\ lifetime >= 2
    /\ successes = 0

\* the step is the handler of client c's request to the route returning
Handles(c, method, path) ==
    /\ Routed(c, method, path)
    /\ inflight'[c] = None

\* C16: whatever the order in which the requests of concurrent clients are
\* handled on the shared instance, in every reachable state the stored
\* indices are 1..N, the counter is N and N is the number of POST
\* /api/predict requests answered with success since the last DELETE, and
\* the handling of a POST /api/predict answered with success stores exactly
\* one entry, the one the response describes.
C16_HandlersAtomic ==
    /\ [](/\ predictionCount = Len(echoMemories)
          /\ \A i \in 1..Len(echoMemories) : echoMemories[i].predictionIndex = i
          /\ predicted = Len(echoMemories))
    /\ [][\A c \in Clients :
            (/\ Handles(c, "POST", "/api/predict")
             /\ response'.status = 200
             /\ response'.body.success)
            => /\ Len(echoMemories') = Len(echoMemories) + 1
               /\ SubSeq(echoMemories', 1, Len(echoMemories)) = echoMemories
               /\ Last(echoMemories').sequence = inflight[c].body.sequence.items
               /\ Last(echoMemories').predictionIndex = Len(echoMemories')
               /\ jsonNumber(Last(echoMemories').nextNumber) = response'.body.nextNumber
               /\ jsonNumber(Last(echoMemories').commonDifference)
                      = response'.body.commonDifference]_vars

\* client c2's prediction has been answered while c1's request, sent before
\* it, is still in flight, and an earlier prediction is already stored
C16_Witness ==
    /\ inflight["c1"] # None
    /\ inflight["c1"].path = "/api/predict"
    /\ inflight["c1"].body.has
    /\ response # None
    /\ response.client = "c2"
    /\ response.request.path = "/api/predict"
    /\ response.status = 200
    /\ response.body.success
    /\ Len(echoMemories) = 2
    /\ echoMemories[1].sequence # echoMemories[2].sequence

C18_ServerErrorBody ==
    (response # None /\ response.status = 500)
    => /\ DOMAIN response.body = {"success", "message"}
       /\ response.body.success = FALSE
       /\ response.body.message.text = "Server error: "

\* C19: the handling of a GET /api/memories answers 200 with the whole
\* history of the shared instance, oldest first, and a count that is the
\* number of entries returned and the number of POST /api/predict requests
\* answered with success since the last DELETE /api/memories or the start.
C19_MemoriesAndCount ==
    [][\A c \in Clients :
         Handles(c, "GET", "/api/memories")
         => /\ response'.status = 200
            /\ response'.body.memories = jsonMemories(echoMemories)
            /\ \A i \in 1..Len(response'.body.memories) :
                   response'.body.memories[i].predictionIndex = i
            /\ response'.body.count = Len(response'.body.memories)
            /\ response'.body.count = predicted
            /\ UNCHANGED <<echoMemories, predictionCount>>]_vars

\* a GET /api/memories has returned two entries predicted after an earlier DELETE
C19_Witness ==
    /\ response # None
    /\ response.request.method = "GET"
    /\ response.request.path = "/api/memories"
    /\ response.body.count = 2
    /\ response.body.memories[1].sequence # response.body.memories[2].sequence
    /\ lifetime = 3

\* C20: the handling of a DELETE /api/memories answers 200 with success =
\* true and a message whatever the state; the handling of a GET
\* /api/memories with no POST /api/predict answered with success since the
\* last DELETE returns no memories and count 0; and the handling of the first
\* POST /api/predict answered with success after it stores index 1.
C20_DeleteThenEmpty ==
    [][\A c \in Clients :
         /\ Handles(c, "DELETE", "/api/memories")
            => /\ response'.status = 200
               /\ response'.body = [success |-> TRUE,
                                    message |-> Message("All memories have been cleared", Null)]
               /\ predicted' = 0
         /\ (Handles(c, "GET", "/api/memories") /\ predicted = 0)
            => /\ response'.body.memories = <<>>
               /\ response'.body.count = 0
         /\ (/\ Handles(c, "POST", "/api/predict")
             /\ predicted = 0
             /\ response'.status = 200
             /\ response'.body.success)
            => /\ Len(echoMemories') = 1
               /\ echoMemories'[1].predictionIndex = 1]_vars

\* a prediction answered after a DELETE that discarded two entries is stored with index 1
C20_Witness ==
    /\ response # None
    /\ response.request.path = "/api/predict"
    /\ response.status = 200
    /\ response.body.success
    /\ lifetime = 3
    /\ Len(echoMemories) = 1
    /\ echoMemories[1].predictionIndex = 1

\* C21: the handling of a GET /api/test answers 200, whatever the shared
\* instance holds, with success = true and as result the prediction for
\* [3, 6, 9, 12]: success = true, nextNumber 15, commonDifference 3.
C21_SelfTestResult ==
    [][\A c \in Clients :
         Handles(c, "GET", "/api/test")
         => /\ response'.status = 200
            /\ response'.body.success = TRUE
            /\ response'.body.result.success = TRUE
            /\ response'.body.result.nextNumber = Num(15)
            /\ response'.body.result.commonDifference = Num(3)
            /\ response'.body.result.message = MsgNext(Num(15))]_vars

\* the self-test has been answered while the shared instance holds two entries
C21_Witness ==
    /\ response # None
    /\ response.request.path = "/api/test"
    /\ response.status = 200
    /\ response.body.result.nextNumber = Num(15)
    /\ Len(echoMemories) = 2
    /\ predictionCount = 2

\* the self-test's sequence
SelfTestItems == Nums(<<3, 6, 9, 12>>)

\* C27: the handling of a GET /api/test leaves the history and the counter
\* of the shared instance as they were and calls nothing on it, so in every
\* state no stored entry holds the self-test's sequence, the history has one
\* entry per POST /api/predict answered with success since the last DELETE,
\* and a GET /api/memories returns no entry with the self-test's sequence.
C27_SelfTestOnFreshInstance ==
    /\ [](/\ \A i \in 1..Len(echoMemories) : echoMemories[i].sequence # SelfTestItems
          /\ predicted = Len(echoMemories)
          /\ predictionCount = predicted)
    /\ [][\A c \in Clients :
            /\ Handles(c, "GET", "/api/test")
               => /\ UNCHANGED <<echoMemories, predictionCount, successes, lifetime>>
                  /\ call' = NoCall
            /\ Handles(c, "GET", "/api/memories")
               => \A i \in 1..Len(response'.body.memories) :
                      response'.body.memories[i].sequence # SelfTestItems]_vars

\* client c2's self-test has been answered with one entry stored on the
\* shared instance and client c1's GET /api/memories still in flight
C27_Witness ==
    /\ response # None
    /\ response.client = "c2"
    /\ response.request.path = "/api/test"
    /\ response.body.result.success
    /\ inflight["c1"] # None
    /\ inflight["c1"].method = "GET"
    /\ inflight["c1"].path = "/api/memories"
    /\ Len(echoMemories) = 1
    /\ predictionCount = 1

Falsy(x) ==
    \/ x.k \in {"undefined", "null", "false", "emptyString", "nan"}
    \/ x = Num(0)

HasNonNumber(s) ==
    \E i \in 1..Len(s) : s[i].k # "hole" /\ (~typeofNumber(s[i]) \/ s[i].k = "nan")

\* every consecutive difference of the array is === to the first one
ConstantDifferences(s) ==
    \A i \in 1..(Len(s) - 1) :
        JsStrictEq(JsSub(s[i + 1], s[i]), JsSub(s[2], s[1]))

\* C25: validateSequence returns the type message for a non-array; else the
\* length message for fewer than two elements, whatever they are; else the
\* element message when some element is not a number or is NaN, whatever
\* the differences of the others; else the progression message when the
\* differences are not all equal; else the success message.  A failure has
\* one of the four failure messages, and the five messages are distinct.
C25_MessagePrecedence ==
    /\ Cardinality({MsgNotArray, MsgTooShort, MsgNotNumbers, MsgNotArithmetic, MsgValid}) = 5
    /\ call.op = "validateSequence"
       => /\ result.message =
                 IF ~isArray(sequence) THEN MsgNotArray
                 ELSE IF Len(items) < 2 THEN MsgTooShort
                 ELSE IF HasNonNumber(items) THEN MsgNotNumbers
                 ELSE IF ~ConstantDifferences(items) THEN MsgNotArithmetic
                 ELSE MsgValid
          /\ result.isValid = (result.message = MsgValid)
          /\ ~result.isValid
             => result.message \in {MsgNotArray, MsgTooShort, MsgNotNumbers, MsgNotArithmetic}

\* validateSequence has given the element message to four elements whose
\* numbers are not in progression and whose last is a string
C25_Witness ==
    /\ call.op = "validateSequence"
    /\ isArray(sequence)
    /\ items = <<Num(0), Num(1), Num(-1), Str>>
    /\ result.message = MsgNotNumbers

\* the sequences of the test cases that are arithmetic progressions, in order
ValidTestItems ==
    << Nums(<<3, 6, 9, 12>>), Nums(<<10, 7, 4, 1>>), Nums(<<100, 200, 300, 400>>),
       Nums(<<-5, -3, -1, 1>>), Nums(<<1, 2>>) >>

\* C29: a run of the console's tests appends to the history of the
\* console's own instance exactly five entries, those of the five valid
\* test sequences in order and none for [1, 2, 4, 8], with the indices
\* counter + 1 .. counter + 5, and adds 5 to the counter; 'view memories'
\* shows the whole history, and the history loses entries only by a clear.
C29_TestRunAppendsFive ==
    /\ [][call'.op = "runTests"
          => /\ Len(echoMemories') = Len(echoMemories) + 5
             /\ SubSeq(echoMemories', 1, Len(echoMemories)) = echoMemories
             /\ \A k \in 1..5 :
                    /\ echoMemories'[Len(echoMemories) + k].sequence = ValidTestItems[k]
                    /\ echoMemories'[Len(echoMemories) + k].predictionIndex
                           = predictionCount + k
             /\ predictionCount' = predictionCount + 5
             /\ call'.result = [passedTests |-> 6, failedTests |-> 0]]_vars
    /\ [][call'.op = "displayMemories" => call'.result = echoMemories']_vars
    /\ [][call'.op # "clearMemories"
          => /\ Len(echoMemories') >= Len(echoMemories)
             /\ SubSeq(echoMemories', 1, Len(echoMemories)) = echoMemories]_vars

\* 'view memories' shows, after one prediction, the five entries of a test run as echoes 2 to 6
C29_Witness ==
    /\ call.op = "displayMemories"
    /\ Len(result) = 6
    /\ result[1].sequence = Nums(<<5, 10>>)
    /\ result[2].sequence = Nums(<<3, 6, 9, 12>>)
    /\ result[6].sequence = Nums(<<1, 2>>)
    /\ result[6].predictionIndex = 6
    /\ predictionCount = 6

\* C23: a caller that pushes to, pops from or assigns into the list
\* getMemories returned changes neither the history nor the counter of the
\* instance, and a list the caller holds keeps its elements when predictNext
\* is called afterwards.
C23_NoHandleOnHistory ==
    /\ [][call'.op \in {"callerPush", "callerPop", "callerAssign"}
          => UNCHANGED <<echoMemories, predictionCount>>]_vars
    /\ [][(call'.op = "predictNext" /\ caller.held # None)
          => heldItems' = heldItems]_vars

\* C24: a successful predictNext stores the elements its argument has at
\* the call, and a later assignment by the caller into that array leaves
\* every stored entry as it was.
C24_StoredSequenceIsCopy ==
    /\ [][call'.op = "mutateInput" => UNCHANGED echoMemories]_vars
    /\ [][(call'.op = "predictNext" /\ call'.result.success)
          => Last(echoMemories').sequence = caller'.input.items]_vars

\* the caller has assigned into the array of its last, stored, prediction:
\* the entry still holds the elements as they were passed
C24_Witness ==
    /\ call.op = "mutateInput"
    /\ echoMemories # <<>>
    /\ sequence = Arr(Nums(<<5, 10>>))
    /\ Last(echoMemories).sequence = sequence.items
    /\ caller.input.items = <<Num(0), Num(10)>>
    /\ Last(echoMemories).predictionIndex = predictionCount

\* no thread is inside predictNext
Quiescent == \A t \in Threads : threads.pc[t] = "idle"

\* the stored indices are 1..N and the counter is N
Dense ==
    /\ predictionCount = Len(echoMemories)
    /\ \A i \in 1..Len(echoMemories) : echoMemories[i].predictionIndex = i

\* two stored entries have the same index
DuplicateIndex ==
    \E i, j \in 1..Len(echoMemories) :
        i # j /\ echoMemories[i].predictionIndex = echoMemories[j].predictionIndex

\* C26: with parallel callers of predictNext, a state between calls in which
\* two entries share an index or the counter is not the history length
\* arises only without the lock and only after one caller's append came
\* between another's append and its increment; with the lock around append
\* and increment no two entries ever share an index and the indices are
\* 1..N with the counter N whenever the lock is free.
C26_DenseNeedsAtomicAppend ==
    /\ (Quiescent /\ ~Dense) => (~threads.useLock /\ threads.overlapped)
    /\ threads.useLock => ~DuplicateIndex
    /\ (threads.useLock /\ threads.lock = "free") => Dense

\* without the lock two callers have finished and left two entries with
\* index 1 and a counter of 1
C26_Witness ==
    /\ ~threads.useLock
    /\ Quiescent
    /\ Len(echoMemories) = 2
    /\ echoMemories[1].predictionIndex = 1
    /\ echoMemories[2].predictionIndex = 1
    /\ predictionCount = 1

\* call c of predictSequence starts in this step with the given text in the input field
Called(c) ==
    /\ page'.event # page.event \/ page'.pc[c] # page.pc[c] \/ page'.shown # page.shown
    /\ page'.event # None
    /\ page'.event.name = "predictSequence"
    /\ page'.event.call = c

====
